---- MODULE Spec2Model ----
(***************************************************************************)
(* A model of the dataset-preparation utilities of project/utils:          *)
(*   image_utils.py       create_train_test_validation_sets, _split_files  *)
(*   dataset_utils.py     save_dataset / load_dataset (split form)         *)
(*   create_dataset.py    save_dataset / load_dataset (simple form)        *)
(*   preprocess_images.py process_images / resize_image                    *)
(*   download_synsets.py  main / download_and_rename_tar                   *)
(*                                                                         *)
(* Specifications:                                                         *)
(*   Spec        one run of create_train_test_validation_sets on a tree    *)
(*   SplitSpec   _split_files as a pure function of (files, percentages)   *)
(*   DataSpec    save_dataset, then load_dataset, of either module         *)
(*   LoadSpec    load_dataset of either module on an arbitrary file        *)
(*   ResizeSpec  one call of process_images and the workers of its pool    *)
(*   FilterSpec  the tree run on folders with entries that are no images   *)
(*   RerunSpec   the tree run twice into the same output directory         *)
(*   SumSpec     _split_files on a test percentage computed as a sum       *)
(*   DownloadSpec  runs of the downloader's main and its tasks             *)
(***************************************************************************)
EXTENDS Integers, Sequences, FiniteSets, TLC

(***************************************************************************)
(* Python floats.  A float is an IEEE-754 binary64 number; the model keeps *)
(* its magnitude as a fixed-point bit string, most significant bit first:  *)
(* IntBits bits before the binary point and FracBits after it.  Every      *)
(* arithmetic result is rounded to MantBits significant bits, to nearest,  *)
(* ties to even, as the hardware does.                                     *)
(***************************************************************************)
IntBits == 8
FracBits == 60
MantBits == 53
W == IntBits + FracBits

\* percentages are written as decimal literals with one digit: num / PctDen
PctDen == 10

RECURSIVE Pow2(_)
Pow2(k) == IF k = 0 THEN 1 ELSE 2 * Pow2(k - 1)

IntPart(n) == [i \in 1..IntBits |-> (n \div Pow2(IntBits - i)) % 2]

\* k steps of the binary long division r / q (r < q): quotient bits, remainder
RECURSIVE FracPart(_, _, _)
FracPart(r, q, k) ==
    IF k = 1 THEN [bits |-> <<(2 * r) \div q>>, rem |-> (2 * r) % q]
    ELSE LET hi == FracPart(r, q, k \div 2)
             lo == FracPart(hi.rem, q, k - k \div 2)
         IN IF hi.rem < 0 THEN hi
            ELSE [bits |-> hi.bits \o lo.bits, rem |-> lo.rem]

Msb(b) == IF \E i \in 1..W : b[i] = 1
          THEN CHOOSE i \in 1..W : b[i] = 1 /\ \A j \in 1..(i - 1) : b[j] = 0
          ELSE 0

\* round to nearest, ties to even, keeping MantBits significant bits;
\* sticky says that the exact value has non-zero bits beyond position W
Round(b, sticky) ==
    LET m == Msb(b)
        last == m + MantBits - 1
    IN IF m = 0 \/ last >= W THEN b
       ELSE LET guard == b[last + 1]
                rest == sticky \/ \E j \in (last + 2)..W : b[j] = 1
                up == guard = 1 /\ (rest \/ b[last] = 1)
                z == CHOOSE j \in 0..last :
                        /\ (j > 0 => b[j] = 0)
                        /\ \A k \in (j + 1)..last : b[k] = 1
            IN <<>> \o [i \in 1..W |->
                  IF ~up THEN (IF i <= last THEN b[i] ELSE 0)
                  ELSE IF i < z THEN b[i] ELSE IF i = z THEN 1 ELSE 0]

\* the float nearest to p / q (a decimal literal, or float(n) for q = 1)
FromRatio(p, q) ==
    LET f == FracPart(p % q, q, FracBits)
    IN Round(IntPart(p \div q) \o f.bits, f.rem # 0)

FromInt(n) == FromRatio(n, 1)

\* n * b over the bit positions lo..hi (hi least significant), carry c coming in
RECURSIVE MulBits(_, _, _, _, _)
MulBits(n, b, lo, hi, c) ==
    IF lo = hi
    THEN [bits |-> <<(n * b[lo] + c) % 2>>, carry |-> (n * b[lo] + c) \div 2]
    ELSE LET mid == (lo + hi) \div 2
             l == MulBits(n, b, mid + 1, hi, c)
             h == MulBits(n, b, lo, mid, l.carry)
         IN IF l.carry < 0 THEN l
            ELSE [bits |-> h.bits \o l.bits, carry |-> h.carry]

\* int * float: the int converts exactly, the product is rounded
FMulInt(n, b) ==
    IF Len(b) # W THEN <<>>
    ELSE Round(MulBits(n, b, 1, W, 0).bits, FALSE)

RECURSIVE AddBits(_, _, _, _, _)
AddBits(a, b, lo, hi, c) ==
    IF lo = hi
    THEN [bits |-> <<(a[lo] + b[lo] + c) % 2>>, carry |-> (a[lo] + b[lo] + c) \div 2]
    ELSE LET mid == (lo + hi) \div 2
             l == AddBits(a, b, mid + 1, hi, c)
             h == AddBits(a, b, lo, mid, l.carry)
         IN IF l.carry < 0 THEN l
            ELSE [bits |-> h.bits \o l.bits, carry |-> h.carry]

\* float + float of two non-negative floats
FAdd(a, b) ==
    IF Len(a) # W \/ Len(b) # W THEN <<>>
    ELSE Round(AddBits(a, b, 1, W, 0).bits, FALSE)

RECURSIVE IntOf(_, _)
IntOf(b, i) == IF i = 0 THEN 0 ELSE 2 * IntOf(b, i - 1) + b[i]

\* int(x) of a non-negative float: truncation
Trunc(b) == IntOf(b, IntBits)

\* a < b on magnitudes of the same width
Less(a, b) == \E i \in 1..Len(a) : a[i] < b[i] /\ \A j \in 1..(i - 1) : a[j] = b[j]

\* a - b over the bit positions lo..hi for a >= b, borrow c coming in
RECURSIVE SubBits(_, _, _, _, _)
SubBits(a, b, lo, hi, c) ==
    IF lo = hi
    THEN [bits |-> <<(2 + a[lo] - b[lo] - c) % 2>>,
          carry |-> IF a[lo] - b[lo] - c < 0 THEN 1 ELSE 0]
    ELSE LET mid == (lo + hi) \div 2
             l == SubBits(a, b, mid + 1, hi, c)
             h == SubBits(a, b, lo, mid, l.carry)
         IN IF l.carry < 0 THEN l
            ELSE [bits |-> h.bits \o l.bits, carry |-> h.carry]

\* float - float for a >= b >= 0
FSub(a, b) ==
    IF Len(a) # W \/ Len(b) # W THEN <<>>
    ELSE Round(SubBits(a, b, 1, W, 0).bits, FALSE)

\* the steps lo..hi of the restoring division of a * 2^FracBits by b;
\* r is the running remainder, one bit wider than the operands
RECURSIVE DivSteps(_, _, _, _, _)
DivSteps(r, a, b, lo, hi) ==
    IF lo = hi
    THEN LET r2 == Tail(r) \o <<IF lo <= W THEN a[lo] ELSE 0>>
             ge == ~Less(r2, b)
         IN [bits |-> <<IF ge THEN 1 ELSE 0>>,
             rem |-> IF ge THEN SubBits(r2, b, 1, W + 1, 0).bits ELSE r2]
    ELSE LET mid == (lo + hi) \div 2
             h == DivSteps(r, a, b, lo, mid)
             l == DivSteps(h.rem, a, b, mid + 1, hi)
         IN IF Len(h.rem) = 0 THEN h
            ELSE [bits |-> h.bits \o l.bits, rem |-> l.rem]

\* float / float of non-negative floats, b # 0, quotient below 2^IntBits
FDiv(a, b) ==
    IF Len(a) # W \/ Len(b) # W THEN <<>>
    ELSE LET d == DivSteps([i \in 1..(W + 1) |-> 0], a, <<0>> \o b, 1, W + FracBits)
         IN Round(SubSeq(d.bits, FracBits + 1, FracBits + W),
                  \E i \in 1..(W + 1) : d.rem[i] = 1)

\* math.ceil of a non-negative float (math.floor is Trunc)
Ceil(b) == Trunc(b) + (IF \E i \in (IntBits + 1)..W : b[i] = 1 THEN 1 ELSE 0)

Abs(k) == IF k < 0 THEN 0 - k ELSE k

\* the float a percentage literal num / PctDen denotes: sign and magnitude
Pct(num) == [neg |-> num < 0, mag |-> FromRatio(Abs(num), PctDen)]

\* 0 < x < 1 on floats
InOpenUnit(x) == ~x.neg /\ Msb(x.mag) # 0 /\ Less(x.mag, FromInt(1))

(***************************************************************************)
(* Sequences                                                               *)
(***************************************************************************)
Range(s) == {s[i] : i \in 1..Len(s)}

Min(a, b) == IF a < b THEN a ELSE b

\* Python's s[lo:hi] for 0 <= lo, 0 <= hi (0-based, hi exclusive, clamped)
Slice(s, lo, hi) ==
    LET l == Min(lo, Len(s))
        h == Min(hi, Len(s))
    IN IF h <= l THEN <<>> ELSE [i \in 1..(h - l) |-> s[l + i]]

\* Python's s[lo:]
SliceFrom(s, lo) == Slice(s, lo, Len(s))

Perms(n) == {p \in [1..n -> 1..n] : \A i, j \in 1..n : p[i] = p[j] => i = j}

Reverse(s) == [i \in 1..Len(s) |-> s[Len(s) + 1 - i]]

\* bounds of the model
MaxFiles == 3
MaxPermLen == 3
MaxListLen == 90

\* random.shuffle(files): every rearrangement of a short list; of a longer
\* list, the list itself and its reversal stand for the outcomes
Shuffle(files) ==
    IF Len(files) <= MaxPermLen
    THEN {[i \in 1..Len(files) |-> files[p[i]]] : p \in Perms(Len(files))}
    ELSE {files, Reverse(files)}

(***************************************************************************)
(* image_utils.py                                                          *)
(***************************************************************************)
TRAIN_FOLDER == "train"
TEST_FOLDER == "test"
VAL_FOLDER == "val"
OutputFolderNames == <<TRAIN_FOLDER, TEST_FOLDER, VAL_FOLDER>>

\* the class sub-folders of the input tree, in os.listdir order
Classes == <<"bird", "cat">>

\* the percentage literals a caller passes, in tenths
PctNums == {-1, 0, 2, 3, 5, 7, 10, 11}

VARIABLES
    inputDir,   \* [exists, count, other]: class folder c holds count[c] image
                \* files and other[c] entries that are no image files
    outDirs,    \* the directories that exist under (and including) output_dir
    outFiles,   \* <<folder, class, basename>> of every file under output_dir
    cs,         \* the call of create_train_test_validation_sets
    ioLog,      \* the file-system operations the call has performed
    splits,     \* class -> what _split_files was given and what it returned
    sf,         \* _split_files applied on its own: arguments and result
    outPathOk,  \* whether the output file's directory exists and is writable
    disk,       \* the content of the dataset file
    sv,         \* the last call of save_dataset
    ld,         \* the last call of load_dataset since the file was written
    rz,         \* the call of process_images, its pool and its logs
    hist,       \* the earlier runs of create_train_test_validation_sets
    rng,        \* <<seed, class>> -> the order random.shuffle gave the files
                \* of the class after random.seed(seed)
    dl          \* the downloader: its runs of main, its tasks and its files

treeVars == <<outDirs, outFiles, cs, ioLog, splits, hist, rng>>
dataVars == <<outPathOk, disk, sv, ld>>
notTree == <<sf, dataVars, rz, dl>>

vars == <<inputDir, treeVars, sf, dataVars, rz, dl>>

\* as _ensure_valid_percentages, but a sum of exactly 1 is let through
_ensure_valid_percentages_sum_gt(train_percentage, test_percentage) ==
    IF ~InOpenUnit(train_percentage) THEN "ValueError"
    ELSE IF ~InOpenUnit(test_percentage) THEN "ValueError"
    ELSE IF Less(FromInt(1), FAdd(train_percentage.mag, test_percentage.mag))
         THEN "ValueError"
    ELSE "ok"

_ensure_valid_percentages(train_percentage, test_percentage) ==
    IF ~InOpenUnit(train_percentage) THEN "ValueError"
    ELSE IF ~InOpenUnit(test_percentage) THEN "ValueError"
    ELSE IF ~Less(FAdd(train_percentage.mag, test_percentage.mag), FromInt(1))
         THEN "ValueError"
    ELSE "ok"

\* as _split_files, but the test slice ends at test_count
_split_files_short_test(files, test_percentage, train_percentage) ==
    LET train_count == Trunc(FMulInt(Len(files), train_percentage.mag))
        test_count == Trunc(FMulInt(Len(files), test_percentage.mag))
    IN [train_files |-> Slice(files, 0, train_count),
        test_files |-> Slice(files, train_count, test_count),
        validation_files |-> SliceFrom(files, train_count + test_count)]

_split_files(files, test_percentage, train_percentage) ==
    LET train_count == Trunc(FMulInt(Len(files), train_percentage.mag))
        test_count == Trunc(FMulInt(Len(files), test_percentage.mag))
    IN [train_files |-> Slice(files, 0, train_count),
        test_files |-> Slice(files, train_count, train_count + test_count),
        validation_files |-> SliceFrom(files, train_count + test_count)]

\* os.path.join(input_dir, image_class_folder, filename) for every entry
\* _get_source_files: every entry of the class folder, os.listdir taking no
\* filter; entries 1..count match file_filter, the other ones follow them
_get_source_files(image_class_folder) ==
    [k \in 1..(inputDir.count[image_class_folder]
                 + inputDir.other[image_class_folder]) |-> <<image_class_folder, k>>]

\* the entry of a class folder matches file_filter
MatchesFilter(dir, image_class_folder, name) == name <= dir.count[image_class_folder]

Basename(path) == path[2]

\* _create_output_folder: os.makedirs creates the missing parents too
_create_output_folder(dirs, folder_name) == dirs \cup {<<>>, <<folder_name>>}

_create_image_class_output_folder(dirs, folder_name, image_class) ==
    dirs \cup {<<folder_name, image_class>>}

\* shutil.copy2(file, output_folder) for each file: the copy keeps the basename
_copy_files(files, folder_name, image_class) ==
    {<<folder_name, image_class, Basename(files[i])>> : i \in 1..Len(files)}

Idle ==
    [pc |-> "idle", train |-> 0, test |-> 0, seed |-> "none", todo |-> <<>>,
     result |-> "none"]

NoSplit == [c \in Range(Classes) |-> [done |-> FALSE]]

\* line 62: the call starts with the validation of its percentages
Call(t, e) ==
    /\ cs.pc = "idle"
    /\ cs' = IF _ensure_valid_percentages(Pct(t), Pct(e)) = "ok"
             THEN [Idle EXCEPT !.pc = "mkdirs", !.train = t, !.test = e]
             ELSE [Idle EXCEPT !.pc = "raised", !.train = t, !.test = e,
                               !.result = "ValueError"]
    /\ UNCHANGED <<inputDir, outDirs, outFiles, ioLog, splits, hist, rng, notTree>>

\* lines 64-65
CreateOutputFolders ==
    /\ cs.pc = "mkdirs"
    /\ outDirs' = _create_output_folder(_create_output_folder(
                      _create_output_folder(outDirs, TRAIN_FOLDER), TEST_FOLDER),
                      VAL_FOLDER)
    /\ ioLog' = ioLog \cup {"makedirs"}
    /\ cs' = [cs EXCEPT !.pc = "listdir"]
    /\ UNCHANGED <<inputDir, outFiles, splits, hist, rng, notTree>>

\* line 67: os.listdir(input_dir)
ListInput ==
    /\ cs.pc = "listdir"
    /\ ioLog' = ioLog \cup {"listdir"}
    /\ cs' = IF inputDir.exists
             THEN [cs EXCEPT !.pc = "loop", !.todo = Classes]
             ELSE [cs EXCEPT !.pc = "raised", !.result = "FileNotFoundError"]
    /\ UNCHANGED <<inputDir, outDirs, outFiles, splits, hist, rng, notTree>>

\* the seeds a caller gives random.seed before a run
Seeds == {"seed 1"}

\* no seeded shuffle has been drawn
NoDraws == [k \in Seeds \X Range(Classes) |-> [drawn |-> FALSE, files |-> <<>>]]

\* a shuffle that forgets what the seed gave before
RandomShuffle_unseeded(files, seed, c) == Shuffle(files)

\* random.shuffle(files): any order; after random.seed(seed) the order the
\* generator gives the files of the c-th class is the same every time
RandomShuffle(files, seed, c) ==
    IF seed # "none" /\ rng[<<seed, c>>].drawn
    THEN {rng[<<seed, c>>].files}
    ELSE Shuffle(files)

\* lines 69-80: one turn of the loop over the class folders
ProcessClass ==
    /\ cs.pc = "loop"
    /\ cs.todo # <<>>
    /\ LET c == Head(cs.todo)
           tp == Pct(cs.train)
           te == Pct(cs.test)
       IN \E files \in RandomShuffle(_get_source_files(c), cs.seed, c) :
            LET r == _split_files(files, te, tp)
            IN /\ rng' = IF cs.seed = "none" THEN rng
                         ELSE [rng EXCEPT ![<<cs.seed, c>>] =
                                  [drawn |-> TRUE, files |-> files]]
               /\ splits' = [splits EXCEPT ![c] =
                                [done |-> TRUE, files |-> files, out |-> r]]
               /\ outDirs' = _create_image_class_output_folder(
                                 _create_image_class_output_folder(
                                    _create_image_class_output_folder(
                                        outDirs, TRAIN_FOLDER, c), TEST_FOLDER, c),
                                 VAL_FOLDER, c)
               /\ outFiles' = outFiles
                                \cup _copy_files(r.train_files, TRAIN_FOLDER, c)
                                \cup _copy_files(r.test_files, TEST_FOLDER, c)
                                \cup _copy_files(r.validation_files, VAL_FOLDER, c)
    /\ ioLog' = ioLog \cup {"listdir", "makedirs", "copy"}
    /\ cs' = [cs EXCEPT !.todo = Tail(cs.todo)]
    /\ UNCHANGED <<inputDir, hist, notTree>>

Return ==
    /\ cs.pc = "loop"
    /\ cs.todo = <<>>
    /\ cs' = [cs EXCEPT !.pc = "done", !.result = "ok"]
    /\ UNCHANGED <<inputDir, outDirs, outFiles, ioLog, splits, hist, rng, notTree>>

\* the output file of save_dataset: not there yet
Absent == [kind |-> "absent"]

\* no save_dataset, no load_dataset has run
NoSave ==
    [module |-> "none", sizes |-> <<>>, result |-> "none", cause |-> "none",
     effects |-> {}, data |-> <<>>]
NoLoad == [module |-> "none", result |-> "none", cause |-> "none", value |-> <<>>]

\* process_images has not been called
NoResize ==
    [pc |-> "idle", result |-> "none", value |-> "none", size |-> <<0, 0>>,
     max_workers |-> 0, kinds |-> <<>>, pool |-> FALSE, tasks |-> <<>>,
     waited |-> 0, written |-> {}, workerLog |-> <<>>, logger |-> <<>>]

NoSf == [pc |-> "none"]

(***************************************************************************)
(* download_synsets.py: the names and the idle state of the downloader     *)
(***************************************************************************)
NumSynsets == 2

\* the items of synset_mapping, in the order of the dictionary
synset_mapping ==
    << <<"airplane", "n02691156">>, <<"automobile", "n02958343">>,
       <<"bird", "n01503061">> >>

\* one task per item of synset_mapping that the model takes up
Tasks == 1..Min(NumSynsets, Len(synset_mapping))

\* a coroutine that gather has scheduled and that has not run yet
NewTask == [pc |-> "new", existed |-> FALSE, gets |-> 0, got |-> 0,
            outcome |-> "none"]

\* a directory without files
NoFile == [name \in {} |-> <<>>]

\* main has not been called and download_dir does not exist
NoDownload ==
    [pc |-> "idle", runs |-> 0, dirExists |-> FALSE, fs |-> NoFile,
     task |-> [i \in Tasks |-> NewTask], past |-> <<>>]

\* a class folder count of nothing
NoFiles == [c \in Range(Classes) |-> 0]

InputDirs ==
    {[exists |-> FALSE, count |-> NoFiles, other |-> NoFiles]}
    \cup {[exists |-> TRUE, count |-> n, other |-> NoFiles] : n \in [Range(Classes) -> 0..MaxFiles]}

Init ==
    /\ inputDir \in InputDirs
    /\ outDirs \in {{}, {<<>>}}
    /\ outFiles = {}
    /\ cs = Idle
    /\ ioLog = {}
    /\ splits = NoSplit
    /\ sf = NoSf
    /\ outPathOk = TRUE
    /\ disk = Absent
    /\ sv = NoSave
    /\ ld = NoLoad
    /\ rz = NoResize
    /\ dl = NoDownload
    /\ hist = <<>>
    /\ rng = NoDraws

Next ==
    \/ \E t, e \in PctNums : Call(t, e)
    \/ CreateOutputFolders
    \/ ListInput
    \/ ProcessClass
    \/ Return

Spec == Init /\ [][Next]_vars

\* input trees whose first class folder holds an entry that file_filter does
\* not match
FilterDirs ==
    {[exists |-> TRUE, count |-> n,
      other |-> [c \in Range(Classes) |-> IF c = Classes[1] THEN 1 ELSE 0]] :
     n \in [Range(Classes) -> 0..(MaxFiles - 1)]}

FilterInit ==
    /\ inputDir \in FilterDirs
    /\ outDirs \in {{}, {<<>>}}
    /\ outFiles = {}
    /\ cs = Idle
    /\ ioLog = {}
    /\ splits = NoSplit
    /\ sf = NoSf
    /\ outPathOk = TRUE
    /\ disk = Absent
    /\ sv = NoSave
    /\ ld = NoLoad
    /\ rz = NoResize
    /\ dl = NoDownload
    /\ hist = <<>>
    /\ rng = NoDraws

\* create_train_test_validation_sets on a tree with entries that are no images
FilterSpec == FilterInit /\ [][Next]_vars

\* bound of the model: the files of the first class folder when the call is
\* run twice
MaxRerunFiles == 2

\* random.seed(seed), or no seeding, and then the call
CallSeeded(t, e, seed) ==
    /\ cs.pc = "idle"
    /\ cs' = IF _ensure_valid_percentages(Pct(t), Pct(e)) = "ok"
             THEN [Idle EXCEPT !.pc = "mkdirs", !.train = t, !.test = e,
                               !.seed = seed]
             ELSE [Idle EXCEPT !.pc = "raised", !.train = t, !.test = e,
                               !.seed = seed, !.result = "ValueError"]
    /\ UNCHANGED <<inputDir, outDirs, outFiles, ioLog, splits, hist, rng, notTree>>

\* the call has returned; the caller is about to call it a second time, on
\* the same input tree and into the same output directory
Again ==
    /\ cs.pc = "done"
    /\ hist = <<>>
    /\ hist' = <<[train |-> cs.train, test |-> cs.test, seed |-> cs.seed,
                  splits |-> splits]>>
    /\ cs' = Idle
    /\ splits' = NoSplit
    /\ ioLog' = {}
    /\ UNCHANGED <<inputDir, outDirs, outFiles, rng, notTree>>

RerunDirs ==
    {[exists |-> TRUE,
      count |-> [c \in Range(Classes) |-> IF c = Classes[1] THEN n ELSE m],
      other |-> NoFiles] : n \in 0..MaxRerunFiles, m \in 0..1}

\* the percentages of the two runs, in tenths
RerunPcts == {<<7, 2>>, <<5, 2>>}

RerunInit ==
    /\ inputDir \in RerunDirs
    /\ outDirs = {}
    /\ outFiles = {}
    /\ cs = Idle
    /\ ioLog = {}
    /\ splits = NoSplit
    /\ sf = NoSf
    /\ outPathOk = TRUE
    /\ disk = Absent
    /\ sv = NoSave
    /\ ld = NoLoad
    /\ rz = NoResize
    /\ dl = NoDownload
    /\ hist = <<>>
    /\ rng = NoDraws

RerunNext ==
    \/ \E pr \in RerunPcts : \E seed \in Seeds \cup {"none"} :
          CallSeeded(pr[1], pr[2], seed)
    \/ CreateOutputFolders
    \/ ListInput
    \/ ProcessClass
    \/ Return
    \/ Again

\* two runs of create_train_test_validation_sets, one after the other
RerunSpec == RerunInit /\ [][RerunNext]_vars

(***************************************************************************)
(* _split_files on its own: any list of distinct paths, in any order, and  *)
(* any pair of percentages that _ensure_valid_percentages accepts          *)
(***************************************************************************)
ValidPairs ==
    {pr \in (1..(PctDen - 1)) \X (1..(PctDen - 1)) :
        _ensure_valid_percentages(Pct(pr[1]), Pct(pr[2])) = "ok"}

SplitInit ==
    /\ inputDir = [exists |-> FALSE, count |-> NoFiles, other |-> NoFiles]
    /\ outDirs = {}
    /\ outFiles = {}
    /\ cs = Idle
    /\ ioLog = {}
    /\ splits = NoSplit
    /\ outPathOk = TRUE
    /\ disk = Absent
    /\ sv = NoSave
    /\ ld = NoLoad
    /\ rz = NoResize
    /\ dl = NoDownload
    /\ hist = <<>>
    /\ rng = NoDraws
    /\ \E pr \in ValidPairs : \E n \in 0..MaxListLen :
         \E files \in Shuffle([k \in 1..n |-> <<"bird", k>>]) :
            sf = [pc |-> "args", files |-> files, train |-> pr[1], test |-> pr[2]]

SplitFiles ==
    /\ sf.pc = "args"
    /\ sf' = [pc |-> "returned", files |-> sf.files, train |-> sf.train,
              test |-> sf.test,
              out |-> _split_files(sf.files, Pct(sf.test), Pct(sf.train))]
    /\ UNCHANGED <<inputDir, treeVars, dataVars, rz, dl>>

SplitNext == SplitFiles

SplitSpec == SplitInit /\ [][SplitNext]_vars

(***************************************************************************)
(* dataset_utils.py and create_dataset.py                                  *)
(***************************************************************************)
\* bound of the model: the images under the input directory
MaxSamples == 33

\* flow_from_directory(batch_size=32); 32 is also the default of the call
\* in create_dataset.py
BATCH_SIZE == 32

\* flow_from_directory: the class folders in sorted order, their files in
\* sorted order; sample idx (1-based here) is a file of the first class or
\* of the second
NumSamples(dir) == dir.count[Classes[1]] + dir.count[Classes[2]]

FileNameOf(dir, idx) ==
    IF idx <= dir.count[Classes[1]] THEN <<Classes[1], idx>>
    ELSE <<Classes[2], idx - dir.count[Classes[1]]>>

\* the label of a sample: the class index (class_mode "binary") or its
\* one-hot vector ("categorical", the default)
LabelOf(dir, idx, class_mode) ==
    LET class == IF idx <= dir.count[Classes[1]] THEN 0 ELSE 1
    IN IF class_mode = "binary" THEN class
       ELSE [c \in 1..Len(Classes) |-> IF c = class + 1 THEN 1 ELSE 0]

\* the rescaled pixels the generator yields for a sample
Pixels(dir, idx) == [px |-> FileNameOf(dir, idx)]

NewGenerator(dir) ==
    [n |-> NumSamples(dir), batch_index |-> 0, epoch |-> 0, index_array |-> <<>>]

\* next(generator): the index array is drawn anew at the start of each epoch
\* (arrays[k] is the k-th draw) and the batches run through it, wrapping around
GenNext(g, arrays) ==
    LET ia == IF g.batch_index = 0 THEN arrays[g.epoch + 1] ELSE g.index_array
        epoch == IF g.batch_index = 0 THEN g.epoch + 1 ELSE g.epoch
        current == IF g.n = 0 THEN 0 ELSE (g.batch_index * BATCH_SIZE) % g.n
        bi == IF g.n > current + BATCH_SIZE THEN g.batch_index + 1 ELSE 0
    IN [g |-> [n |-> g.n, batch_index |-> bi, epoch |-> epoch, index_array |-> ia],
        batch |-> Slice(ia, current, current + BATCH_SIZE)]

NoData == [images |-> <<>>, labels |-> <<>>, filenames |-> <<>>]

\* the accumulation loop: k more turns of
\*   images, labels = next(generator)
\*   batch_indices = generator.index_array[:len(images)]
RECURSIVE Accumulate(_, _, _, _, _, _)
Accumulate(k, g, acc, dir, class_mode, arrays) ==
    IF k = 0 THEN acc
    ELSE LET nx == GenNext(g, arrays)
             images == [i \in 1..Len(nx.batch) |-> Pixels(dir, nx.batch[i])]
             labels == [i \in 1..Len(nx.batch) |->
                           LabelOf(dir, nx.batch[i], class_mode)]
             batch_indices == Slice(nx.g.index_array, 0, Len(images))
             batch_filenames ==
                 [i \in 1..Len(batch_indices) |-> FileNameOf(dir, batch_indices[i])]
         IN Accumulate(k - 1, nx.g,
                       [images |-> acc.images \o images,
                        labels |-> acc.labels \o labels,
                        filenames |-> acc.filenames \o batch_filenames],
                       dir, class_mode, arrays)

\* the draws of the index array the loop can see: at most two epochs begin
IndexArrays(n) ==
    LET one == Shuffle([i \in 1..n |-> i])
    IN IF n > 0 /\ n % BATCH_SIZE = 0
       THEN {<<a, b>> : a \in one, b \in one}
       ELSE {<<a, a>> : a \in one}

\* sklearn _validate_shuffle_split with train_size a float and test_size None
SizesFromTrain(n, train_size) ==
    LET n_train == Trunc(FMulInt(n, train_size))
    IN [ok |-> Msb(train_size) # 0 /\ Less(train_size, FromInt(1)) /\ n_train # 0,
        n_train |-> n_train, n_test |-> n - n_train]

\* sklearn _validate_shuffle_split with test_size a float and train_size None
SizesFromTest(n, test_size) ==
    LET n_test == Ceil(FMulInt(n, test_size))
    IN [ok |-> Msb(test_size) # 0 /\ Less(test_size, FromInt(1)) /\ n - n_test # 0,
        n_train |-> n - n_test, n_test |-> n_test]

\* train_test_split(random_state=42) permutes the n rows by the seeded
\* generator: one fixed permutation for each n, here either of two
SeededPermutations(n) ==
    LET rows == [i \in 1..n |-> i]
    IN {rows, Reverse(rows)}

Take(a, idx) == [i \in 1..Len(idx) |-> a[idx[i]]]

\* sklearn train_test_split(a1, a2, a3, ...): one permutation of the rows,
\* its first n_test entries the test rows, the next n_train the train rows;
\* the result lists, for each array in turn, its train part and its test part
train_test_split(a1, a2, a3, sizes, perm) ==
    LET test == Slice(perm, 0, sizes.n_test)
        train == Slice(perm, sizes.n_test, sizes.n_test + sizes.n_train)
    IN <<Take(a1, train), Take(a1, test), Take(a2, train), Take(a2, test),
         Take(a3, train), Take(a3, test)>>

\* a dict is the sequence of its <<key, value>> items, in insertion order
DictHas(d, k) == \E i \in 1..Len(d) : d[i][1] = k
DictGet(d, k) == d[CHOOSE i \in 1..Len(d) : d[i][1] = k][2]
DictKeys(d) == {d[i][1] : i \in 1..Len(d)}

\* dataset_utils.save_dataset, lines 103-139: the names the two results are
\* unpacked into, and the dict built from them
data_to_save_du(first, second) ==
    LET x_train == first[1]
        y_train == first[3]
        filenames_train == first[5]
        x_val == second[1]
        x_test == second[2]
        y_val == second[3]
        y_test == second[4]
        filenames_test == second[5]
        filenames_val == second[6]
    IN << <<"train_images", x_train>>,
          <<"train_labels", y_train>>,
          <<"val_images", x_val>>,
          <<"val_labels", y_val>>,
          <<"test_images", x_test>>,
          <<"test_labels", y_test>>,
          <<"filenames", [train |-> filenames_train,
                          val |-> filenames_val,
                          test |-> filenames_test]>> >>

\* a save that stores the images by filename under another key
data_to_save_cd_renamed(acc) ==
    << <<"train_images", acc.images>>,
       <<"train_labels", acc.labels>>,
       <<"image_files", [nm \in Range(acc.filenames) |-> nm]>> >>

\* create_dataset.save_dataset, lines 64-70; batch_image_files is a dict
\* keyed by filename, a later image replacing an earlier one of the same name
data_to_save_cd(acc) ==
    LET names == Range(acc.filenames)
        last(nm) == CHOOSE i \in 1..Len(acc.images) :
                       /\ acc.filenames[i] = nm
                       /\ \A j \in (i + 1)..Len(acc.images) : acc.filenames[j] # nm
    IN << <<"train_images", acc.images>>,
          <<"train_labels", acc.labels>>,
          <<"batch_image_files", [nm \in names |-> acc.images[last(nm)]]>> >>

\* pickle.dump of a dict: the stream names the type and lists key, value, ...
RECURSIVE Flatten(_)
Flatten(items) ==
    IF items = <<>> THEN <<>>
    ELSE <<items[1][1], items[1][2]>> \o Flatten(Tail(items))

PickleDump(items) == [kind |-> "pickle", type |-> "dict", bytes |-> Flatten(items)]

\* what open(file_name, "rb") and pickle.load(file) do with the file: raise,
\* or return the object the stream describes
PickleLoad(file) ==
    CASE file.kind = "absent" -> [raises |-> "FileNotFoundError"]
      [] file.kind = "directory" -> [raises |-> "IsADirectoryError"]
      [] file.kind = "empty" -> [raises |-> "EOFError"]
      [] file.kind = "truncated" -> [raises |-> "UnpicklingError"]
      [] file.kind = "garbage" -> [raises |-> "UnpicklingError"]
      [] file.kind = "bad_int" -> [raises |-> "ValueError"]
      [] file.kind = "unknown_class" -> [raises |-> "ModuleNotFoundError"]
      [] file.kind = "pickle" /\ file.type = "dict" ->
            [raises |-> "none", type |-> "dict",
             items |-> [i \in 1..(Len(file.bytes) \div 2) |->
                          <<file.bytes[2 * i - 1], file.bytes[2 * i]>>]]
      [] file.kind = "pickle" /\ file.type # "dict" ->
            [raises |-> "none", type |-> file.type, items |-> <<>>]

\* the exception classes that are OSError (IOError is OSError)
OSErrors == {"FileNotFoundError", "IsADirectoryError", "PermissionError", "OSError"}

\* the keys in the order val before test
required_keys_du_val_first ==
    <<"train_images", "train_labels", "val_images", "val_labels",
      "test_images", "test_labels", "filenames">>

required_keys_du ==
    <<"train_images", "train_labels", "test_images", "test_labels",
      "val_images", "val_labels", "filenames">>

required_keys_cd == <<"train_images", "train_labels", "batch_image_files">>

\* a load that takes a mapping only if its keys are exactly the required ones
LoadBody_exact_keys(file, required_keys) ==
    LET data == PickleLoad(file)
    IN IF data.raises # "none" THEN [raises |-> data.raises]
       ELSE IF data.type \in {"int", "None"} THEN [raises |-> "TypeError"]
       ELSE IF data.type # "dict" THEN [raises |-> "KeyError"]
       ELSE IF DictKeys(data.items) # Range(required_keys)
            THEN [raises |-> "KeyError"]
       ELSE [raises |-> "none",
             value |-> [i \in 1..Len(required_keys) |->
                          DictGet(data.items, required_keys[i])]]

\* the body of the try block of load_dataset: the exception it raises, or
\* the tuple it returns
LoadBody(file, required_keys) ==
    LET data == PickleLoad(file)
    IN IF data.raises # "none" THEN [raises |-> data.raises]
       ELSE IF data.type \in {"int", "None"} THEN [raises |-> "TypeError"]
       ELSE IF data.type # "dict" THEN [raises |-> "KeyError"]
       ELSE IF ~\A i \in 1..Len(required_keys) : DictHas(data.items, required_keys[i])
            THEN [raises |-> "KeyError"]
       ELSE [raises |-> "none",
             value |-> [i \in 1..Len(required_keys) |->
                          DictGet(data.items, required_keys[i])]]

\* the except clauses of load_dataset (both modules have the same three)
load_dataset(file, required_keys) ==
    LET r == LoadBody(file, required_keys)
    IN IF r.raises = "none" THEN [result |-> "ok", cause |-> "none", value |-> r.value]
       ELSE IF r.raises \in OSErrors \cup {"UnpicklingError", "KeyError"}
            THEN [result |-> "RuntimeError", cause |-> r.raises, value |-> <<>>]
       ELSE [result |-> r.raises, cause |-> "none", value |-> <<>>]

\* a check of the sizes that leaves the range of val_size out
ValidSizes_no_val_range(train_size, val_size) ==
    /\ InOpenUnit(train_size)
    /\ Less(FAdd(train_size.mag, val_size.mag), FromInt(1))

\* sizes are checked as the percentages of the splitter are
ValidSizes(train_size, val_size) ==
    /\ InOpenUnit(train_size)
    /\ InOpenUnit(val_size)
    /\ Less(FAdd(train_size.mag, val_size.mag), FromInt(1))

\* the call of save_dataset: the module and the sizes passed, in tenths
CallDU(t, v) == [module |-> "dataset_utils", sizes |-> <<t, v>>]

CallCD == [module |-> "create_dataset", sizes |-> <<>>]

\* the write at the end of save_dataset
WriteFile(call, effects, items) ==
    IF outPathOk
    THEN /\ disk' = PickleDump(items)
         /\ sv' = [module |-> call.module, sizes |-> call.sizes, result |-> "ok",
                   cause |-> "none", effects |-> effects \cup {"written"},
                   data |-> items]
    ELSE /\ disk' = disk
         /\ sv' = [module |-> call.module, sizes |-> call.sizes,
                   result |-> "IOError", cause |-> "FileNotFoundError",
                   effects |-> effects, data |-> items]

Raise(call, exc, effects) ==
    /\ sv' = [module |-> call.module, sizes |-> call.sizes, result |-> exc,
              cause |-> "none", effects |-> effects, data |-> <<>>]
    /\ disk' = disk

\* dataset_utils.save_dataset(input_dir, output_file, train_size, val_size)
SaveDatasetDU(t, v) ==
    /\ sv = NoSave
    /\ ld' = NoLoad
    /\ UNCHANGED <<inputDir, outPathOk, treeVars, sf, rz, dl>>
    /\ IF ~inputDir.exists \/ ~ValidSizes(Pct(t), Pct(v))
       THEN Raise(CallDU(t, v), "ValueError", {})
       ELSE LET n == NumSamples(inputDir)
                train_size == Pct(t).mag
                val_size == Pct(v).mag
                test_size == FSub(FSub(FromInt(1), train_size), val_size)
                share == FDiv(test_size, FAdd(test_size, val_size))
            IN \E arrays \in IndexArrays(n) :
                 LET acc == Accumulate(n \div BATCH_SIZE + 1, NewGenerator(inputDir),
                                       NoData, inputDir, "binary", arrays)
                     m == Len(acc.images)
                     sz1 == SizesFromTrain(m, train_size)
                 IN IF ~sz1.ok
                    THEN Raise(CallDU(t, v), "ValueError", {"generator", "loaded"})
                    ELSE \E p1 \in SeededPermutations(m) :
                           LET first == train_test_split(acc.images, acc.labels,
                                                         acc.filenames, sz1, p1)
                               sz2 == SizesFromTest(sz1.n_test, share)
                           IN IF ~sz2.ok
                              THEN Raise(CallDU(t, v), "ValueError",
                                         {"generator", "loaded"})
                              ELSE \E p2 \in SeededPermutations(sz1.n_test) :
                                     WriteFile(CallDU(t, v), {"generator", "loaded"},
                                               data_to_save_du(first,
                                                  train_test_split(first[2], first[4],
                                                                   first[6], sz2, p2)))

\* create_dataset.save_dataset(input_dir, output_file)
SaveDatasetCD ==
    /\ sv = NoSave
    /\ ld' = NoLoad
    /\ UNCHANGED <<inputDir, outPathOk, treeVars, sf, rz, dl>>
    /\ IF ~inputDir.exists
       THEN Raise(CallCD, "ValueError", {})
       ELSE LET n == NumSamples(inputDir)
            IN \E arrays \in IndexArrays(n) :
                 WriteFile(CallCD, {"generator", "loaded"},
                           data_to_save_cd(
                               Accumulate(n \div BATCH_SIZE + 1, NewGenerator(inputDir),
                                          NoData, inputDir, "categorical", arrays)))

LoadDataset(module, required_keys) ==
    /\ LET r == load_dataset(disk, required_keys)
       IN ld' = [module |-> module, result |-> r.result, cause |-> r.cause,
                 value |-> r.value]
    /\ UNCHANGED <<inputDir, outPathOk, disk, sv, treeVars, sf, rz, dl>>

LoadDatasetDU == LoadDataset("dataset_utils", required_keys_du)

LoadDatasetCD == LoadDataset("create_dataset", required_keys_cd)

\* the image counts tried: the small ones, some of a single batch and those
\* around a full batch
SampleCounts ==
    {n \in 0..MaxSamples : n <= 4 \/ n % 8 = 2 \/ n >= BATCH_SIZE - 1}

\* the input directories of a dataset: n images, half of them in each class
DatasetDirs ==
    {[exists |-> FALSE, count |-> NoFiles, other |-> NoFiles]}
    \cup {[exists |-> TRUE,
           count |-> [c \in Range(Classes) |->
                        IF c = Classes[1] THEN n - n \div 2 ELSE n \div 2],
           other |-> NoFiles] :
          n \in SampleCounts}

\* the size literals a caller passes, in tenths
SizeNums == {0, 2, 7, 10}

TreeIdle ==
    /\ outDirs = {}
    /\ outFiles = {}
    /\ cs = Idle
    /\ ioLog = {}
    /\ splits = NoSplit

DataInit ==
    /\ inputDir \in DatasetDirs
    /\ outPathOk \in BOOLEAN
    /\ disk = Absent
    /\ sv = NoSave
    /\ ld = NoLoad
    /\ rz = NoResize
    /\ dl = NoDownload
    /\ hist = <<>>
    /\ rng = NoDraws
    /\ sf = NoSf
    /\ TreeIdle

DataNext ==
    \/ \E t, v \in SizeNums : SaveDatasetDU(t, v)
    \/ SaveDatasetCD
    \/ LoadDatasetDU
    \/ LoadDatasetCD

\* save_dataset and load_dataset of both modules on one output file
DataSpec == DataInit /\ [][DataNext]_vars

\* the keys a file given to load_dataset may hold: the required keys of both
\* modules and one that neither asks for
FileKeys == required_keys_du \o <<"batch_image_files", "metadata">>

\* the dict with the keys ks, each key mapped to a value of its own
RECURSIVE DictOf(_, _)
DictOf(keys, ks) ==
    IF keys = <<>> THEN <<>>
    ELSE (IF keys[1] \in ks THEN << <<keys[1], <<"value", keys[1]>> >> >> ELSE <<>>)
         \o DictOf(Tail(keys), ks)

\* the files load_dataset can be pointed at
Files ==
    {[kind |-> k] : k \in {"absent", "directory", "empty", "truncated", "garbage",
                           "bad_int", "unknown_class"}}
    \cup {[kind |-> "pickle", type |-> t, bytes |-> <<>>] :
          t \in {"list", "str", "int", "None"}}
    \cup {PickleDump(DictOf(FileKeys, ks)) : ks \in SUBSET Range(FileKeys)}

LoadInit ==
    /\ inputDir = [exists |-> FALSE, count |-> NoFiles, other |-> NoFiles]
    /\ outPathOk = TRUE
    /\ disk \in Files
    /\ sv = NoSave
    /\ ld = NoLoad
    /\ rz = NoResize
    /\ dl = NoDownload
    /\ hist = <<>>
    /\ rng = NoDraws
    /\ sf = NoSf
    /\ TreeIdle

LoadNext ==
    \/ LoadDatasetDU
    \/ LoadDatasetCD

\* load_dataset of both modules on an arbitrary file
LoadSpec == LoadInit /\ [][LoadNext]_vars

(***************************************************************************)
(* preprocess_images.py                                                    *)
(***************************************************************************)
\* bound of the model: the images under the input directory of the resizer
MaxImages == 3

\* find_images: the files under input_dir; a directory that is not there
\* has none
find_images(dir) ==
    IF dir.exists
    THEN [idx \in 1..NumSamples(dir) |-> <<"input_dir">> \o FileNameOf(dir, idx)]
    ELSE <<>>

\* image_path.relative_to(input_dir): the path without the components of
\* input_dir
relative_to(image_path) == Tail(image_path)

\* a destination that keeps the file name only
output_path_flat(image_path) == <<"output_dir", image_path[Len(image_path)]>>

\* Path(output_dir) / image_path.relative_to(input_dir)
output_path(image_path) == <<"output_dir">> \o relative_to(image_path)

\* image_tasks: (image_path, output_path) for every image found
image_tasks(images) == [i \in 1..Len(images) |-> <<images[i], output_path(images[i])>>]

\* the dimensions of the source images: square, wide and tall ones
ImageSizes == << <<32, 32>>, <<512, 32>>, <<32, 512>>, <<224, 224>> >>

\* the dimensions of the image stored at image_path: the files of the first
\* class run through ImageSizes from its first entry, those of the second
\* class from its third
ImageSizeOf(image_path) ==
    LET k == image_path[Len(image_path)]
        from == IF image_path[Len(image_path) - 1] = Classes[1] THEN 0 ELSE 2
    IN ImageSizes[((k - 1 + from) % Len(ImageSizes)) + 1]

\* a resize that fits the image into size, keeping its aspect ratio
img_resize_keep_aspect(source_size, size) ==
    IF source_size[1] * size[2] >= source_size[2] * size[1]
    THEN <<size[1], (source_size[2] * size[1]) \div source_size[1]>>
    ELSE <<(source_size[1] * size[2]) \div source_size[2], size[2]>>

\* img.resize(size, Image.Resampling.LANCZOS): an image of exactly size
img_resize(source_size, size) == size

\* Image.resize takes a size with both dimensions positive
ValidSize(size) == size[1] > 0 /\ size[2] > 0

\* a resize_image that keeps its failures to itself
resize_image_silent(image, kind, size) ==
    IF kind = "good" /\ ValidSize(size)
    THEN [written |-> TRUE, log |-> <<[level |-> "info", image |-> image,
                                       cause |-> "none"]>>]
    ELSE [written |-> FALSE, log |-> <<>>]

\* resize_image(image_path, output_path, size): the image is opened, resized
\* and saved, and any exception on the way is logged; it returns None
resize_image(image, kind, size) ==
    IF kind = "corrupt"
    THEN [written |-> FALSE,
          log |-> <<[level |-> "error", image |-> image,
                     cause |-> "UnidentifiedImageError"]>>]
    ELSE IF ~ValidSize(size)
    THEN [written |-> FALSE,
          log |-> <<[level |-> "error", image |-> image, cause |-> "ValueError"]>>]
    ELSE IF kind = "unwritable"
    THEN [written |-> FALSE,
          log |-> <<[level |-> "error", image |-> image, cause |-> "OSError"]>>]
    ELSE [written |-> TRUE,
          log |-> <<[level |-> "info", image |-> image, cause |-> "none"]>>]

\* a wait that does not wait
FutureDone_no_wait(r, i) == i \in 1..Len(r.tasks)

\* a wait on future i (future.result(), and the shutdown of the pool) ends
\* when its task has finished
FutureDone(r, i) == r.tasks[i] = "done"

Running(r) == {i \in 1..Len(r.tasks) : r.tasks[i] = "running"}

\* process_images up to the end of the submissions: discovery, the early
\* return, the construction of the pool, one future per image
ProcessImages(size, max_workers, kinds) ==
    /\ rz.pc = "idle"
    /\ LET images == find_images(inputDir)
           call == [rz EXCEPT !.size = size, !.max_workers = max_workers,
                              !.kinds = kinds]
       IN /\ Len(kinds) = Len(images)
          /\ IF images = <<>>
             THEN rz' = [call EXCEPT !.pc = "done", !.result = "returned",
                                     !.value = "None",
                                     !.logger = <<"warning: no images found">>]
             ELSE IF max_workers <= 0
             THEN rz' = [call EXCEPT !.pc = "done", !.result = "ValueError",
                                     !.logger = <<"info: found images">>]
             ELSE rz' = [call EXCEPT !.pc = "pool", !.pool = TRUE,
                                     !.tasks = [i \in 1..Len(images) |-> "pending"],
                                     !.logger = <<"info: found images">>]
    /\ UNCHANGED <<inputDir, treeVars, sf, dataVars, dl>>

\* a free worker process takes the next task of the queue
WorkerStart(i) ==
    /\ rz.pc = "pool"
    /\ i \in 1..Len(rz.tasks)
    /\ rz.tasks[i] = "pending"
    /\ \A j \in 1..(i - 1) : rz.tasks[j] # "pending"
    /\ Cardinality(Running(rz)) < rz.max_workers
    /\ rz' = [rz EXCEPT !.tasks[i] = "running"]
    /\ UNCHANGED <<inputDir, treeVars, sf, dataVars, dl>>

\* the worker runs resize_image to its end
WorkerFinish(i) ==
    /\ rz.pc = "pool"
    /\ i \in Running(rz)
    /\ LET task == image_tasks(find_images(inputDir))[i]
           image == task[1]
           r == resize_image(image, rz.kinds[i], rz.size)
           saved == [path |-> task[2],
                     size |-> img_resize(ImageSizeOf(image), rz.size)]
       IN rz' = [rz EXCEPT !.tasks[i] = "done",
                           !.written = IF r.written THEN @ \cup {saved} ELSE @,
                           !.workerLog = @ \o r.log]
    /\ UNCHANGED <<inputDir, treeVars, sf, dataVars, dl>>

\* for future in futures: future.result()
WaitResult ==
    /\ rz.pc = "pool"
    /\ rz.waited < Len(rz.tasks)
    /\ FutureDone(rz, rz.waited + 1)
    /\ rz' = [rz EXCEPT !.waited = @ + 1]
    /\ UNCHANGED <<inputDir, treeVars, sf, dataVars, dl>>

\* the end of the with block shuts the pool down, waiting; the time is
\* logged and the function returns
ReturnProcessImages ==
    /\ rz.pc = "pool"
    /\ rz.waited = Len(rz.tasks)
    /\ \A i \in 1..Len(rz.tasks) : FutureDone(rz, i)
    /\ rz' = [rz EXCEPT !.pc = "done", !.result = "returned", !.value = "None",
                        !.pool = FALSE, !.logger = @ \o <<"info: time taken">>]
    /\ UNCHANGED <<inputDir, treeVars, sf, dataVars, dl>>

\* the input directories of the resizer
ResizeDirs ==
    {[exists |-> FALSE, count |-> NoFiles, other |-> NoFiles]}
    \cup {[exists |-> TRUE,
           count |-> [c \in Range(Classes) |->
                        IF c = Classes[1] THEN n - n \div 2 ELSE n \div 2],
           other |-> NoFiles] :
          n \in 0..MaxImages}

\* the sizes and worker counts a caller passes
Sizes == {<<224, 224>>, <<0, 0>>, <<-1, 1>>, <<1, -1>>}

WorkerCounts == {-1, 0, 1, 2}

ImageKinds == {"good", "corrupt", "unwritable"}

ResizeInit ==
    /\ inputDir \in ResizeDirs
    /\ outPathOk = TRUE
    /\ disk = Absent
    /\ sv = NoSave
    /\ ld = NoLoad
    /\ rz = NoResize
    /\ dl = NoDownload
    /\ hist = <<>>
    /\ rng = NoDraws
    /\ sf = NoSf
    /\ TreeIdle

ResizeNext ==
    \/ \E size \in Sizes : \E max_workers \in WorkerCounts :
         \E kinds \in [1..Len(find_images(inputDir)) -> ImageKinds] :
            ProcessImages(size, max_workers, kinds)
    \/ \E i \in 1..MaxImages + 1 : WorkerStart(i)
    \/ \E i \in 1..MaxImages + 1 : WorkerFinish(i)
    \/ WaitResult
    \/ ReturnProcessImages

\* one call of process_images and the worker processes of its pool
ResizeSpec == ResizeInit /\ [][ResizeNext]_vars

(***************************************************************************)
(* Properties of the splitter                                              *)
(***************************************************************************)
\* the position of x in the sequence s of distinct elements
Pos(x, s) == CHOOSE i \in 1..Len(s) : s[i] = x

\* sub holds elements of s in the order s has them
KeepsOrder(sub, s) ==
    /\ Range(sub) \subseteq Range(s)
    /\ \A i \in 1..(Len(sub) - 1) : Pos(sub[i], s) < Pos(sub[i + 1], s)

\* C1: _split_files returns three subsets whose lengths add up to the length
\* of the input, that are pairwise disjoint, that together hold exactly the
\* input's elements, and that each keep the input's relative order.
C1_SplitPartitions ==
    sf.pc = "returned" =>
        LET tr == sf.out.train_files
            te == sf.out.test_files
            va == sf.out.validation_files
        IN /\ Len(tr) + Len(te) + Len(va) = Len(sf.files)
           /\ Range(tr) \cap Range(te) = {}
           /\ Range(tr) \cap Range(va) = {}
           /\ Range(te) \cap Range(va) = {}
           /\ Range(tr) \cup Range(te) \cup Range(va) = Range(sf.files)
           /\ Cardinality(Range(tr)) = Len(tr)
           /\ Cardinality(Range(te)) = Len(te)
           /\ Cardinality(Range(va)) = Len(va)
           /\ KeepsOrder(tr, sf.files)
           /\ KeepsOrder(te, sf.files)
           /\ KeepsOrder(va, sf.files)

\* a shuffled list split into three non-empty subsets
C1_Witness ==
    /\ sf.pc = "returned"
    /\ sf.out.train_files # <<>>
    /\ sf.out.test_files # <<>>
    /\ sf.out.validation_files # <<>>
    /\ sf.files[1] # <<"bird", 1>>

\* C2: train holds exactly floor(n * train_pct) files, test exactly
\* floor(n * test_pct), validation the remaining files, the percentages being
\* the decimal numbers the caller wrote.
C2_ExactFloorCounts ==
    sf.pc = "returned" =>
        LET n == Len(sf.files)
        IN /\ Len(sf.out.train_files) = (n * sf.train) \div PctDen
           /\ Len(sf.out.test_files) = (n * sf.test) \div PctDen
           /\ Len(sf.out.validation_files) =
                 n - (n * sf.train) \div PctDen - (n * sf.test) \div PctDen

\* the percentages are invalid as decimal numbers
InvalidPercentages(t, e) ==
    t <= 0 \/ t >= PctDen \/ e <= 0 \/ e >= PctDen \/ t + e >= PctDen

\* C3: a call with an invalid percentage combination raises ValueError and
\* has performed no file I/O: nothing listed, no folder created, nothing copied.
C3_InvalidRaisesBeforeIO ==
    (cs.pc # "idle" /\ InvalidPercentages(cs.train, cs.test)) =>
        /\ cs.pc = "raised"
        /\ cs.result = "ValueError"
        /\ ioLog = {}
        /\ outFiles = {}
        /\ outDirs \subseteq {<<>>}

\* the call with 0.7 and 0.3, each valid on its own, has raised
C3_Witness ==
    /\ cs.pc = "raised"
    /\ cs.train = 7
    /\ cs.test = 3
    /\ inputDir.exists

(***************************************************************************)
(* Properties of save_dataset and load_dataset                             *)
(***************************************************************************)
ImagesKey(split) ==
    CASE split = "train" -> "train_images"
      [] split = "val" -> "val_images"
      [] split = "test" -> "test_images"

LabelsKey(split) ==
    CASE split = "train" -> "train_labels"
      [] split = "val" -> "val_labels"
      [] split = "test" -> "test_labels"

\* the images, labels and filenames of a split agree in length and
\* filenames[split][i] is the file image i of the split was read from
SplitAligned(data, split) ==
    LET images == DictGet(data, ImagesKey(split))
        labels == DictGet(data, LabelsKey(split))
        names == DictGet(data, "filenames")[split]
    IN /\ Len(images) = Len(labels)
       /\ Len(images) = Len(names)
       /\ \A i \in 1..Len(images) : images[i].px = names[i]

\* C4: in the artifact written by dataset_utils.save_dataset every split
\* has as many images as labels as filenames, and filenames[s][i] is the
\* source file of image i of s
C4_FilenamesMatchImages ==
    (sv.module = "dataset_utils" /\ sv.result = "ok")
        => \A split \in {"train", "val", "test"} : SplitAligned(sv.data, split)

\* the file is a mapping
IsMapping(file) == file.kind = "pickle" /\ file.type = "dict"

FileMapping(file) == PickleLoad(file).items

\* what a load of the mapping on disk must give for the required keys
LoadedAsRequired(required) ==
    IF Range(required) \subseteq DictKeys(FileMapping(disk))
    THEN /\ ld.result = "ok"
         /\ Len(ld.value) = Len(required)
         /\ \A i \in 1..Len(required) : ld.value[i] = <<"value", required[i]>>
    ELSE ld.result = "RuntimeError"

\* C5: on a file that is a mapping, load_dataset of either module succeeds
\* exactly when every required key of that module is present and raises
\* RuntimeError when one is missing; other keys change nothing and the
\* result holds the values of the required keys only
C5_LoadIffRequiredKeys ==
    IsMapping(disk) =>
        /\ ld.module = "dataset_utils" =>
              LoadedAsRequired(<<"train_images", "train_labels", "test_images",
                                 "test_labels", "val_images", "val_labels",
                                 "filenames">>)
        /\ ld.module = "create_dataset" =>
              LoadedAsRequired(<<"train_images", "train_labels",
                                 "batch_image_files">>)

\* a mapping with a key nobody asks for and all required keys but one: the
\* load has raised RuntimeError
C5_Witness ==
    /\ IsMapping(disk)
    /\ DictKeys(FileMapping(disk)) =
           (Range(FileKeys) \ {"val_labels", "batch_image_files"})
    /\ ld.module = "dataset_utils"
    /\ ld.result = "RuntimeError"

\* C6: after save_dataset of a module has written the file, load_dataset of
\* the same module succeeds and returns, for each required key in order, the
\* value save_dataset stored under that key
C6_RoundTrip ==
    (sv.result = "ok" /\ ld.module = sv.module)
        => /\ ld.result = "ok"
           /\ LET required == IF ld.module = "dataset_utils"
                              THEN required_keys_du ELSE required_keys_cd
              IN /\ Len(ld.value) = Len(required)
                 /\ \A i \in 1..Len(required) :
                        /\ DictHas(sv.data, required[i])
                        /\ ld.value[i] = DictGet(sv.data, required[i])

\* dataset_utils has saved more than one batch of images and loaded them back
C6_Witness ==
    /\ sv.module = "dataset_utils"
    /\ sv.result = "ok"
    /\ ld.module = "dataset_utils"
    /\ ld.result = "ok"
    /\ Len(ld.value[1]) + Len(ld.value[3]) + Len(ld.value[5]) > BATCH_SIZE

\* C7: a load_dataset that has run has returned or raised RuntimeError with
\* its cause chained; no other exception reaches the caller
C7_OnlyRuntimeError ==
    ld.module # "none" =>
        \/ ld.result = "ok"
        \/ ld.result = "RuntimeError" /\ ld.cause # "none"

(***************************************************************************)
(* Properties of process_images                                            *)
(***************************************************************************)
\* the images of the call whose resize has nothing to fail on
Resizable ==
    {find_images(inputDir)[i] :
        i \in {j \in 1..Len(rz.kinds) : rz.kinds[j] = "good" /\ ValidSize(rz.size)}}

\* C8: a call of process_images with at least one worker never raises,
\* whichever images fail; once it has returned every submitted task has
\* finished and the destination of every image that did not fail is written
C8_IsolatedAndBlocking ==
    rz.max_workers >= 1 =>
        /\ rz.result \in {"none", "returned"}
        /\ rz.pc = "done" =>
              /\ \A i \in 1..Len(rz.tasks) : rz.tasks[i] = "done"
              /\ \A image \in Resizable :
                    \E f \in rz.written : f.path = output_path(image)

\* the first of three images was corrupt, two workers: the call has returned
\* and the other two are written
C8_Witness ==
    /\ rz.pc = "done"
    /\ rz.result = "returned"
    /\ rz.max_workers = 2
    /\ rz.kinds = <<"corrupt", "good", "good">>
    /\ Cardinality(rz.written) = 2

ErrorsLogged == {i \in 1..Len(rz.workerLog) : rz.workerLog[i].level = "error"}

Failed == Range(find_images(inputDir)) \ Resizable

C10_InvalidArgsRaiseFirst ==
    (rz.pc # "idle" /\ (rz.max_workers < 1 \/ ~ValidSize(rz.size)))
        => /\ rz.result = "ValueError"
           /\ ~rz.pool
           /\ rz.tasks = <<>>
           /\ rz.written = {}

(***************************************************************************)
(* Properties of the failures of save_dataset                              *)
(***************************************************************************)
\* sizes, in tenths, that are both inside (0, 1) and sum to less than 1
ValidTenths(sizes) ==
    /\ 0 < sizes[1] /\ sizes[1] < PctDen
    /\ 0 < sizes[2] /\ sizes[2] < PctDen
    /\ sizes[1] + sizes[2] < PctDen

\* a save_dataset call has ended and its arguments were valid
SavedWithValidArgs ==
    /\ sv.module # "none"
    /\ inputDir.exists
    /\ sv.module = "dataset_utils" => ValidTenths(sv.sizes)

\* C11: save_dataset of either module, on an existing input directory (an
\* empty one included) and an output path that cannot be opened for writing,
\* raises IOError with its cause chained and creates no file
C11_UnwritableRaisesIOError ==
    (SavedWithValidArgs /\ ~outPathOk)
        => /\ sv.result = "IOError"
           /\ sv.cause # "none"
           /\ disk = Absent

\* a save_dataset call has ended and its arguments were not valid
SavedWithInvalidArgs ==
    /\ sv.module # "none"
    /\ \/ ~inputDir.exists
       \/ sv.module = "dataset_utils" /\ ~ValidTenths(sv.sizes)

\* C12: save_dataset called on a missing input directory, or (dataset_utils)
\* with a size outside (0, 1) or sizes summing to 1 or more, raises
\* ValueError with no generator created, no image loaded and the output
\* file untouched
C12_ValidationBeforeWork ==
    SavedWithInvalidArgs
        => /\ sv.result = "ValueError"
           /\ sv.effects = {}
           /\ disk = Absent

\* dataset_utils.save_dataset on a directory with images and a writable
\* output, with sizes 0.7 and 0.7, has raised ValueError
C12_Witness ==
    /\ sv.module = "dataset_utils"
    /\ inputDir.exists
    /\ NumSamples(inputDir) > 0
    /\ outPathOk
    /\ sv.sizes = <<7, 7>>
    /\ sv.result = "ValueError"

(***************************************************************************)
(* Properties of a missing input root                                      *)
(***************************************************************************)
\* C13: create_train_test_validation_sets on an input root that does not
\* exist ends with ValueError, before any output directory is created
C13_MissingRootRaisesFirst ==
    (~inputDir.exists /\ cs.pc \in {"raised", "done"})
        => /\ cs.result = "ValueError"
           /\ "makedirs" \notin ioLog

(***************************************************************************)
(* Properties of file_filter                                               *)
(***************************************************************************)
\* C14: every file under output_dir/{train,test,val}/<class> is a copy of an
\* entry of the class folder that matches file_filter
C14_OnlyMatchingFilesCopied ==
    \A f \in outFiles : MatchesFilter(inputDir, f[2], f[3])

(***************************************************************************)
(* Properties of two runs                                                  *)
(***************************************************************************)
\* both runs have ended, with the same percentages
TwoRunsSamePercentages ==
    /\ hist # <<>>
    /\ cs.pc = "done"
    /\ hist[1].train = cs.train
    /\ hist[1].test = cs.test

Sizes3(out) ==
    <<Len(out.train_files), Len(out.test_files), Len(out.validation_files)>>

\* C15: of two runs on the same tree with the same percentages, (a) two
\* that were seeded alike give every class the same train, test and
\* validation files, and (b) any two give every class subsets of the same
\* sizes
C15_Reproducible ==
    TwoRunsSamePercentages =>
        \A c \in Range(Classes) :
            /\ Sizes3(hist[1].splits[c].out) = Sizes3(splits[c].out)
            /\ (hist[1].seed # "none" /\ hist[1].seed = cs.seed)
                  => hist[1].splits[c].out = splits[c].out

\* two runs seeded alike on a class of two files have ended
C15_Witness ==
    /\ TwoRunsSamePercentages
    /\ cs.seed \in Seeds
    /\ hist[1].seed = cs.seed
    /\ inputDir.count[Classes[1]] = 2
    /\ splits[Classes[1]].out.train_files # <<>>

(***************************************************************************)
(* Properties of the resized files                                         *)
(***************************************************************************)
\* the destinations of the tasks of the call
Destinations == image_tasks(find_images(inputDir))

\* C16: the tasks of one call of process_images have pairwise different
\* destinations, each output_dir joined with the image's path relative to
\* input_dir, so no two workers ever write the same file
C16_DistinctDestinations ==
    rz.pc = "pool" =>
        \A i, j \in 1..Len(rz.tasks) :
            /\ Destinations[i][2] = <<"output_dir">> \o Tail(Destinations[i][1])
            /\ i # j => Destinations[i][2] # Destinations[j][2]

\* two workers are running at once, on files of the same name in two class
\* folders
C16_Witness ==
    /\ rz.pc = "pool"
    /\ \E i, j \in Running(rz) :
          /\ i # j
          /\ Destinations[i][1][Len(Destinations[i][1])]
                = Destinations[j][1][Len(Destinations[j][1])]

\* C17: every file resize_image has written has exactly the target size,
\* whatever the dimensions of its source
C17_ExactTargetSize ==
    \A f \in rz.written : f.size = rz.size

\* a wide 512x32 source and a tall 32x512 one have been written as 224x224
C17_Witness ==
    /\ rz.size = <<224, 224>>
    /\ \A source_size \in {<<512, 32>>, <<32, 512>>} :
          \E i \in 1..Len(rz.tasks) :
             /\ ImageSizeOf(Destinations[i][1]) = source_size
             /\ \E f \in rz.written : f.path = Destinations[i][2]

(***************************************************************************)
(* Properties of the tuple load_dataset returns                            *)
(***************************************************************************)
\* dataset_utils.load_dataset has returned the content of a mapping
LoadedDU ==
    /\ IsMapping(disk)
    /\ ld.module = "dataset_utils"
    /\ ld.result = "ok"

\* position i of the returned tuple is the value stored under key
At(i, key) == ld.value[i] = DictGet(FileMapping(disk), key)

C19_EachSampleOnceWithItsName ==
    (sv.module = "create_dataset" /\ sv.result = "ok")
        => LET all_images == DictGet(sv.data, "train_images")
               all_labels == DictGet(sv.data, "train_labels")
               by_name == DictGet(sv.data, "batch_image_files")
           IN /\ Len(all_images) = NumSamples(inputDir)
              /\ Len(all_labels) = NumSamples(inputDir)
              /\ Cardinality(Range(all_images)) = NumSamples(inputDir)
              /\ \A name \in DOMAIN by_name : by_name[name].px = name

\* the names of the files under output_dir/<folder>/<class>
OutputNames(folder, c) == {f[3] : f \in {g \in outFiles : g[1] = folder /\ g[2] = c}}

\* C20: after one run or two successful runs with the same percentages into
\* the same output directory, the train, test and val folders of every
\* class hold pairwise disjoint file sets, each of the size the split gives
C20_DisjointAfterReruns ==
    (cs.pc = "done" /\ (hist # <<>> => TwoRunsSamePercentages))
        => \A c \in Range(Classes) :
              /\ OutputNames(TRAIN_FOLDER, c) \cap OutputNames(TEST_FOLDER, c) = {}
              /\ OutputNames(TRAIN_FOLDER, c) \cap OutputNames(VAL_FOLDER, c) = {}
              /\ OutputNames(TEST_FOLDER, c) \cap OutputNames(VAL_FOLDER, c) = {}
              /\ <<Cardinality(OutputNames(TRAIN_FOLDER, c)),
                   Cardinality(OutputNames(TEST_FOLDER, c)),
                   Cardinality(OutputNames(VAL_FOLDER, c))>>
                     = Sizes3(splits[c].out)

(***************************************************************************)
(* _split_files on a test percentage the caller computes as the sum of two *)
(* decimal literals (0.2 + 0.7), the training percentage being a literal   *)
(***************************************************************************)
MaxSumLen == 12

\* the float of the Python expression a/10 + b/10 for two literals in tenths
PctSum(a, b) == [neg |-> FALSE, mag |-> FAdd(Pct(a).mag, Pct(b).mag)]

\* <<train, a, b>> with a <= b, in tenths, such that
\* _ensure_valid_percentages accepts the training percentage train/10 and
\* the test percentage a/10 + b/10
ValidSums ==
    {q \in (1..(PctDen - 1)) \X (1..(PctDen - 1)) \X (1..(PctDen - 1)) :
        /\ q[2] <= q[3]
        /\ _ensure_valid_percentages(Pct(q[1]), PctSum(q[2], q[3])) = "ok"}

SumInit ==
    /\ inputDir = [exists |-> FALSE, count |-> NoFiles, other |-> NoFiles]
    /\ outDirs = {}
    /\ outFiles = {}
    /\ cs = Idle
    /\ ioLog = {}
    /\ splits = NoSplit
    /\ outPathOk = TRUE
    /\ disk = Absent
    /\ sv = NoSave
    /\ ld = NoLoad
    /\ rz = NoResize
    /\ dl = NoDownload
    /\ hist = <<>>
    /\ rng = NoDraws
    /\ \E q \in ValidSums : \E n \in 0..MaxSumLen :
         \E files \in Shuffle([k \in 1..n |-> <<"bird", k>>]) :
            sf = [pc |-> "args", files |-> files, train |-> q[1],
                  test |-> <<q[2], q[3]>>]

SplitFilesSum ==
    /\ sf.pc = "args"
    /\ sf' = [pc |-> "returned", files |-> sf.files, train |-> sf.train,
              test |-> sf.test,
              out |-> _split_files(sf.files, PctSum(sf.test[1], sf.test[2]),
                                   Pct(sf.train))]
    /\ UNCHANGED <<inputDir, treeVars, dataVars, rz, dl>>

SumNext == SplitFilesSum

SumSpec == SumInit /\ [][SumNext]_vars

\* C21: for a non-empty file list and a pair of percentages that
\* _ensure_valid_percentages accepts, the validation subset that _split_files
\* returns is not empty: train_count + test_count is less than n.
C21_ValidationNonEmpty ==
    (sf.pc = "returned" /\ Len(sf.files) >= 1) =>
        /\ sf.out.validation_files # <<>>
        /\ Len(sf.out.train_files) + Len(sf.out.test_files) < Len(sf.files)

(***************************************************************************)
(* download_synsets.py: main gathers one download_and_rename_tar task per  *)
(* item of synset_mapping on one event loop.  A task runs from one await   *)
(* to the next as one step; the steps of different tasks interleave.       *)
(***************************************************************************)
MaxChunks == 2
MaxRuns == 2

synset_id(i) == synset_mapping[i][2]
cifar_class_name(i) == synset_mapping[i][1]

\* os.path.join(download_dir, f"{synset_id}.tar")
tar_file_path(i) == <<"download_dir", synset_id(i), "tar">>

\* os.path.join(download_dir, f"{synset_id}-{cifar_class_name}.tar")
renamed_tar_file_path(i) ==
    <<"download_dir", synset_id(i), cifar_class_name(i), "tar">>

\* the archive behind tar_url, as the chunks that content.read(1024) delivers
ChunksOf(i) == ((i - 1) % MaxChunks) + 1
Body(i) == [k \in 1..ChunksOf(i) |-> <<synset_id(i), k>>]

\* os.path.exists(path)
Exists(fs, path) == path \in DOMAIN fs

\* as OpenWb, but an existing file keeps its content (mode "ab")
OpenWb_append(fs, path) ==
    [n \in DOMAIN fs \cup {path} |->
        IF n = path /\ path \notin DOMAIN fs THEN <<>> ELSE fs[n]]

\* open(path, "wb"): the file is created, or truncated if it exists
OpenWb(fs, path) ==
    [n \in DOMAIN fs \cup {path} |-> IF n = path THEN <<>> ELSE fs[n]]

\* f.write(chunk)
WriteChunk(fs, path, chunk) == [fs EXCEPT ![path] = Append(@, chunk)]

\* os.rename(src, dst)
Rename(fs, src, dst) ==
    [n \in (DOMAIN fs \ {src}) \cup {dst} |-> IF n = dst THEN fs[src] ELSE fs[n]]

\* the status codes a response carries
Statuses == {200, 404}

\* what session.get, content.read and the file operations raise
GetErrors == {"ClientConnectorError", "TimeoutError"}
ReadErrors == {"ClientPayloadError", "TimeoutError"}
Exceptions == GetErrors \cup ReadErrors \cup {"OSError"}

\* except Exception: every one of them is caught and logged
Caught(e) == e \in Exceptions

\* an exception raised inside the try block of task t
Fail(t, e) ==
    IF Caught(e) THEN [t EXCEPT !.pc = "done", !.outcome = "error"]
    ELSE [t EXCEPT !.pc = "raised", !.outcome = e]

notDownload == <<inputDir, treeVars, sf, dataVars, rz>>

\* main up to await asyncio.gather(*tasks)
MainStart ==
    /\ dl.pc \in {"idle", "returned", "raised"}
    /\ dl.runs < MaxRuns
    /\ dl' = [dl EXCEPT !.pc = "running",
                        !.runs = @ + 1,
                        !.dirExists = TRUE,
                        !.task = [i \in Tasks |-> NewTask],
                        !.past = IF dl.runs = 0 THEN <<>>
                                 ELSE [i \in Tasks |-> dl.task[i].outcome]]
    /\ UNCHANGED notDownload

\* the task from its start to its first await: the check for the renamed
\* file and, unless it is there, the GET request
Start(i) ==
    /\ dl.pc = "running"
    /\ dl.task[i].pc = "new"
    /\ dl' = IF Exists(dl.fs, renamed_tar_file_path(i))
             THEN [dl EXCEPT !.task[i] = [@ EXCEPT !.pc = "done",
                                                   !.existed = TRUE,
                                                   !.outcome = "skipped"]]
             ELSE [dl EXCEPT !.task[i] = [@ EXCEPT !.pc = "get",
                                                   !.gets = @ + 1]]
    /\ UNCHANGED notDownload

\* session.get answers or raises; on status 200 the temporary file is opened
Respond(i) ==
    /\ dl.pc = "running"
    /\ dl.task[i].pc = "get"
    /\ \/ \E e \in GetErrors : dl' = [dl EXCEPT !.task[i] = Fail(@, e)]
       \/ \E status \in Statuses : \E io \in {"ok", "OSError"} :
            dl' = IF status # 200
                  THEN [dl EXCEPT !.task[i] = [@ EXCEPT !.pc = "done",
                                                        !.outcome = "status"]]
                  ELSE IF io = "OSError"
                  THEN [dl EXCEPT !.task[i] = Fail(@, io)]
                  ELSE [dl EXCEPT !.fs = OpenWb(@, tar_file_path(i)),
                                  !.task[i] = [@ EXCEPT !.pc = "read"]]
    /\ UNCHANGED notDownload

\* content.read(1024) returns or raises: a chunk is written; the empty chunk
\* ends the loop, the file is closed and renamed
ReadChunk(i) ==
    /\ dl.pc = "running"
    /\ dl.task[i].pc = "read"
    /\ \/ \E e \in ReadErrors : dl' = [dl EXCEPT !.task[i] = Fail(@, e)]
       \/ \E io \in {"ok", "OSError"} :
            dl' = IF io = "OSError"
                  THEN [dl EXCEPT !.task[i] = Fail(@, io)]
                  ELSE IF dl.task[i].got < ChunksOf(i)
                  THEN [dl EXCEPT
                          !.fs = WriteChunk(@, tar_file_path(i),
                                            Body(i)[dl.task[i].got + 1]),
                          !.task[i] = [@ EXCEPT !.got = @ + 1]]
                  ELSE [dl EXCEPT
                          !.fs = Rename(@, tar_file_path(i),
                                        renamed_tar_file_path(i)),
                          !.task[i] = [@ EXCEPT !.pc = "done",
                                                !.outcome = "renamed"]]
    /\ UNCHANGED notDownload

\* gather returns when every task has returned, or raises the exception of
\* the first task that raised; asyncio.run then cancels the pending tasks
MainExit ==
    /\ dl.pc = "running"
    /\ \/ \A i \in Tasks : dl.task[i].pc = "done"
       \/ \E i \in Tasks : dl.task[i].pc = "raised"
    /\ dl' = IF \E i \in Tasks : dl.task[i].pc = "raised"
             THEN [dl EXCEPT
                     !.pc = "raised",
                     !.task = [i \in Tasks |->
                                 IF dl.task[i].pc \in {"done", "raised"}
                                 THEN dl.task[i]
                                 ELSE [dl.task[i] EXCEPT !.pc = "cancelled"]]]
             ELSE [dl EXCEPT !.pc = "returned"]
    /\ UNCHANGED notDownload

DownloadInit ==
    /\ inputDir = [exists |-> FALSE, count |-> NoFiles, other |-> NoFiles]
    /\ outDirs = {}
    /\ outFiles = {}
    /\ cs = Idle
    /\ ioLog = {}
    /\ splits = NoSplit
    /\ outPathOk = TRUE
    /\ disk = Absent
    /\ sv = NoSave
    /\ ld = NoLoad
    /\ rz = NoResize
    /\ hist = <<>>
    /\ rng = NoDraws
    /\ sf = NoSf
    /\ \E d \in BOOLEAN : dl = [NoDownload EXCEPT !.dirExists = d]

DownloadNext ==
    \/ MainStart
    \/ \E i \in Tasks : Start(i)
    \/ \E i \in Tasks : Respond(i)
    \/ \E i \in Tasks : ReadChunk(i)
    \/ MainExit

\* runs of main, one after the other, on the same download_dir
DownloadSpec == DownloadInit /\ [][DownloadNext]_vars

\* C22: under every interleaving of the tasks and every failure point, the
\* renamed file {id}-{label}.tar holds the whole archive whenever it exists
\* and the temporary file it was renamed from is gone; a task that finds
\* its renamed file at its start issues no GET; and no task is cancelled or
\* left unfinished because another task failed: main returns only when
\* every task has returned, and never raises.
C22_CompleteSkippedIsolated ==
    \A i \in Tasks :
        /\ Exists(dl.fs, renamed_tar_file_path(i)) =>
              dl.fs[renamed_tar_file_path(i)] = Body(i)
        /\ dl.task[i].outcome = "renamed" =>
              /\ Exists(dl.fs, renamed_tar_file_path(i))
              /\ ~Exists(dl.fs, tar_file_path(i))
              /\ dl.task[i].got = ChunksOf(i)
        /\ dl.task[i].existed => dl.task[i].gets = 0
        /\ (dl.past # <<>> /\ dl.past[i] \in {"renamed", "skipped"}
               /\ dl.task[i].pc # "new") =>
              /\ dl.task[i].gets = 0
              /\ dl.task[i].outcome = "skipped"
        /\ dl.task[i].gets <= 1
        /\ dl.task[i].pc \notin {"raised", "cancelled"}
        /\ dl.pc # "raised"
        /\ dl.pc = "returned" => dl.task[i].pc = "done"

\* a second run of main has returned: the first task, whose archive the
\* first run renamed while the second task failed, was skipped
\* without a GET; the second task, run again, replaced its partial file and
\* renamed it
C22_Witness ==
    /\ dl.pc = "returned"
    /\ dl.past # <<>>
    /\ dl.past[1] = "renamed"
    /\ dl.past[2] = "error"
    /\ dl.task[1].outcome = "skipped"
    /\ dl.task[1].gets = 0
    /\ dl.task[2].outcome = "renamed"
    /\ dl.fs[renamed_tar_file_path(2)] = Body(2)
    /\ Len(Body(2)) > 1

====
